---- MODULE Spec2Model ----
(***************************************************************************)
(* autogit: the daemon lifecycle and the autonomous commit loop.           *)
(*                                                                         *)
(* The model covers the daemon process (cmd start-daemon, daemon.Daemon),  *)
(* its two goroutines (main: signal wait + Stop; runLoop: checkAndCommit   *)
(* driven by a time.Ticker), the git working tree the cycle acts on, the   *)
(* daemon descriptor file daemon.json, and the CLI commands init, pause    *)
(* and status that other processes run against the same config directory. *)
(***************************************************************************)
EXTENDS Integers, Sequences, FiniteSets

\* ------------------------------------------------------------------ bounds
\* Number of daemon processes the CLI may spawn in one behaviour.
MaxPids == 2
\* Local commits not on the remote are counted up to this many ("this many or more").
MaxUnpushed == 2

Pids == 1..MaxPids
\* Repositories (git roots) the commands can be run from.
Repos == {"repoA", "repoB"}
\* A working directory that is in no git repository.
NoRepo == "none"
\* A file that does not exist.
None == [absent |-> TRUE]

\* internal/daemon: the status constants.
StatusRunning == "running"
StatusError == "error"
StatusPaused == "paused"

\* The steps of one checkAndCommit cycle, in source order.
Steps == <<"detect", "diff", "generate", "stage", "commit", "push">>

\* ------------------------------------------------- time.Duration arithmetic
\* A time.Duration is an int64 count of nanoseconds. It is kept here as its eight
\* bytes, least significant first, in two's complement: the product of two
\* durations is the product modulo 2^64, as Go computes it.
Byte == 256
Int64Bytes == 8

\* The k low bytes of the natural number n.
RECURSIVE ToBytes(_, _)
ToBytes(n, k) ==
  IF k = 0 THEN <<>> ELSE <<n % Byte>> \o ToBytes(n \div Byte, k - 1)

\* Sum over j = 1..i of a[j] * b[i + 1 - j]: column i of the long multiplication.
RECURSIVE Column(_, _, _, _)
Column(a, b, i, j) ==
  IF j = 0 THEN 0 ELSE a[j] * b[i + 1 - j] + Column(a, b, i, j - 1)

\* Bytes i..k of the product of a and b, given the carry into column i.
RECURSIVE MulFrom(_, _, _, _, _)
MulFrom(a, b, i, k, carry) ==
  IF i > k THEN <<>>
  ELSE LET c == Column(a, b, i, i) + carry
       IN  <<c % Byte>> \o MulFrom(a, b, i + 1, k, c \div Byte)

\* The product of two k-byte numbers, modulo 2^(8k).
Mul(a, b) == MulFrom(a, b, 1, Len(a), 0)

\* The int64 is greater than zero: sign bit clear and some bit set.
IsPositive64(d) == d[Len(d)] < Byte \div 2 /\ \E i \in 1..Len(d) : d[i] # 0

\* package time: Second = 1000 * Millisecond = 10^9 Nanosecond, Minute = 60 * Second.
NanosPerSecond == 1000000000
SecondsPerMinute == 60
Minute == Mul(ToBytes(SecondsPerMinute, Int64Bytes), ToBytes(NanosPerSecond, Int64Bytes))

\* config.DefaultCheckInterval = 10 * time.Minute
DefaultCheckIntervalMinutes == 10
DefaultCheckInterval == Mul(ToBytes(DefaultCheckIntervalMinutes, Int64Bytes), Minute)

\* Config.GetCheckInterval for CheckIntervalMinutes = n (an int that fits 31 bits
\* here): the default for n <= 0, else time.Duration(n) * time.Minute in int64.
GetCheckInterval(n) ==
  IF n <= 0 THEN DefaultCheckInterval ELSE Mul(ToBytes(n, Int64Bytes), Minute)

\* The int64 d on twice as many bytes, with its sign.
SignExtend(d) ==
  d \o [i \in 1..Len(d) |-> IF d[Len(d)] >= Byte \div 2 THEN Byte - 1 ELSE 0]

\* n minutes in nanoseconds as the integer it is, for n >= 0, on sixteen bytes:
\* no product of two int64 values wraps there.
ExactMinutes(n) == Mul(ToBytes(n, 2 * Int64Bytes), SignExtend(Minute))

\* ------------------------------------------------------------------ strings
\* A Go string whose characters the code inspects (a provider name, a credential,
\* the text of the interval input) is the sequence of its characters.
UpperCase ==
  [c \in {"A", "C", "D", "E", "G", "H", "I", "L", "M", "N", "O", "P", "R", "T", "U"} |->
     CASE c = "A" -> "a" [] c = "C" -> "c" [] c = "D" -> "d" [] c = "E" -> "e"
       [] c = "G" -> "g" [] c = "H" -> "h" [] c = "I" -> "i" [] c = "L" -> "l"
       [] c = "M" -> "m" [] c = "N" -> "n" [] c = "O" -> "o" [] c = "P" -> "p"
       [] c = "R" -> "r" [] c = "T" -> "t" [] c = "U" -> "u"]

ToLowerChar(c) == IF c \in DOMAIN UpperCase THEN UpperCase[c] ELSE c

\* strings.ToLower
ToLower(s) == [i \in 1..Len(s) |-> ToLowerChar(s[i])]

\* strings.TrimSpace: leading and trailing white space is cut.
WhiteSpace == {" ", "\t", "\n"}

RECURSIVE TrimLeft(_)
TrimLeft(s) == IF s # <<>> /\ Head(s) \in WhiteSpace THEN TrimLeft(Tail(s)) ELSE s

RECURSIVE TrimRight(_)
TrimRight(s) ==
  IF s # <<>> /\ s[Len(s)] \in WhiteSpace THEN TrimRight(SubSeq(s, 1, Len(s) - 1)) ELSE s

TrimSpace(s) == TrimRight(TrimLeft(s))

\* strings.HasPrefix
HasPrefix(s, prefix) == Len(s) >= Len(prefix) /\ SubSeq(s, 1, Len(prefix)) = prefix

\* n times the character c.
Repeat(c, n) == [i \in 1..n |-> c]

\* -------------------------------------------------------------- diff texts
\* The output of git diff is kept by its runs, <<[ch, n], ...>>: n >= 1 bytes c,
\* one run after the other, no two neighbours with the same byte; len() and the
\* slice [:k] count bytes.
RECURSIVE len(_)
len(text) == IF text = <<>> THEN 0 ELSE Head(text).n + len(Tail(text))

\* text[:k], for 0 <= k <= len(text)
RECURSIVE Slice(_, _)
Slice(text, k) ==
  IF k <= 0 \/ text = <<>> THEN <<>>
  ELSE IF Head(text).n <= k THEN <<Head(text)>> \o Slice(Tail(text), k - Head(text).n)
  ELSE <<[ch |-> Head(text).ch, n |-> k]>>

\* text[k:], for 0 <= k <= len(text)
RECURSIVE SliceFrom(_, _)
SliceFrom(text, k) ==
  IF k <= 0 \/ text = <<>> THEN text
  ELSE IF Head(text).n <= k THEN SliceFrom(Tail(text), k - Head(text).n)
  ELSE <<[ch |-> Head(text).ch, n |-> Head(text).n - k]>> \o Tail(text)

\* a + b on texts
Concat(a, b) ==
  IF a = <<>> THEN b
  ELSE IF b = <<>> THEN a
  ELSE IF a[Len(a)].ch = Head(b).ch
  THEN SubSeq(a, 1, Len(a) - 1)
         \o <<[ch |-> Head(b).ch, n |-> a[Len(a)].n + Head(b).n]>> \o Tail(b)
  ELSE a \o b

\* The text of a string given by its characters.
RECURSIVE Text(_)
Text(s) == IF s = <<>> THEN <<>> ELSE Concat(<<[ch |-> Head(s), n |-> 1]>>, Text(Tail(s)))

\* ------------------------------------------------------------ AI providers
\* The adapters cut a diff longer than this many bytes.
MaxDiffLen == 100000

\* "\n... (truncated)"
TruncationMarker ==
  Text(<<"\n", ".", ".", ".", " ", "(", "t", "r", "u", "n", "c", "a", "t", "e", "d", ")">>)

\* An adapter that cuts at the limit and appends nothing.
TruncateDiffUnmarked(diff) ==
  IF len(diff) > MaxDiffLen THEN Slice(diff, MaxDiffLen) ELSE diff

\* GenerateCommitMsg of the three adapters, the same lines in each:
\* if len(diff) > 100000 { diff = diff[:100000] + "\n... (truncated)" }
TruncateDiff(diff) ==
  IF len(diff) > MaxDiffLen THEN Concat(Slice(diff, MaxDiffLen), TruncationMarker)
  ELSE diff

\* The provider names of the switch in NewProvider and ValidateAPIKey.
GeminiName == <<"g", "e", "m", "i", "n", "i">>
OpenAIName == <<"o", "p", "e", "n", "a", "i">>
OpenRouterName == <<"o", "p", "e", "n", "r", "o", "u", "t", "e", "r">>
AnthropicName == <<"a", "n", "t", "h", "r", "o", "p", "i", "c">>
ClaudeName == <<"c", "l", "a", "u", "d", "e">>

\* URLs are compared whole; "" is the empty base URL.
OpenAIEndpoint == "https://api.openai.com/v1"
OpenRouterEndpoint == "https://openrouter.ai/api/v1"

\* ai.NewProvider: the adapter for a provider name, or the error. The switch is on
\* the lower-cased name; the choice of the default endpoint compares the name as
\* given.
NewProvider(provider, apiKey, baseURL) ==
  LET name == ToLower(provider) IN
  IF name = GeminiName
  THEN [err |-> "nil", adapter |-> "gemini", apiKey |-> apiKey, baseURL |-> ""]
  ELSE IF name \in {OpenAIName, OpenRouterName}
  THEN [err |-> "nil", adapter |-> "openai", apiKey |-> apiKey,
        baseURL |-> IF baseURL = "" /\ provider = OpenAIName THEN OpenAIEndpoint
                    ELSE IF baseURL = "" THEN OpenRouterEndpoint
                    ELSE baseURL]
  ELSE IF name \in {AnthropicName, ClaudeName}
  THEN [err |-> "nil", adapter |-> "anthropic", apiKey |-> apiKey, baseURL |-> ""]
  ELSE [err |-> "unknown AI provider", adapter |-> "nil", apiKey |-> <<>>, baseURL |-> ""]

\* The shortest credential the gemini case accepts.
MinGeminiKeyLen == 20

\* ai.ValidateAPIKey: the error it returns, "nil" for none.
ValidateAPIKey(provider, apiKey, baseURL) ==
  LET name == ToLower(provider) IN
  IF apiKey = <<>> THEN "API key is required"
  ELSE IF TrimSpace(apiKey) = <<>> THEN "API key cannot be empty"
  ELSE IF name = GeminiName /\ Len(apiKey) < MinGeminiKeyLen
  THEN "Gemini API key appears to be invalid (too short)"
  ELSE IF name \in {OpenAIName, OpenRouterName}
          /\ ~HasPrefix(apiKey, <<"s", "k", "-">>) /\ ~HasPrefix(apiKey, <<"s", "k", "_">>)
  THEN "OpenAI/OpenRouter API key should start with 'sk-' or 'sk_'"
  ELSE IF name \in {AnthropicName, ClaudeName}
          /\ ~HasPrefix(apiKey, <<"s", "k", "-", "a", "n", "t", "-">>)
  THEN "Anthropic API key should start with 'sk-ant-'"
  ELSE IF name \notin {GeminiName, OpenAIName, OpenRouterName, AnthropicName, ClaudeName}
  THEN "unknown AI provider"
  ELSE IF NewProvider(provider, apiKey, baseURL).err # "nil"
  THEN "failed to create provider"
  ELSE "nil"

\* fmt.Sscanf(text, "%d", &n): leading blanks are skipped, a sign is taken, then
\* the decimal digits that follow; what comes after them is not read. err: there
\* was no digit.
Digits ==
  [c \in {"0", "1", "2", "3", "4", "5", "6", "7", "8", "9"} |->
     CASE c = "0" -> 0 [] c = "1" -> 1 [] c = "2" -> 2 [] c = "3" -> 3 [] c = "4" -> 4
       [] c = "5" -> 5 [] c = "6" -> 6 [] c = "7" -> 7 [] c = "8" -> 8 [] c = "9" -> 9]

DigitValue(c) == IF c \in DOMAIN Digits THEN Digits[c] ELSE -1

RECURSIVE ScanDigits(_, _, _)
ScanDigits(text, seen, n) ==
  IF text # <<>> /\ DigitValue(Head(text)) >= 0
  THEN ScanDigits(Tail(text), TRUE, 10 * n + DigitValue(Head(text)))
  ELSE [err |-> ~seen, n |-> n]

RECURSIVE Sscanf(_)
Sscanf(text) ==
  IF text # <<>> /\ Head(text) \in {" ", "\t"} THEN Sscanf(Tail(text))
  ELSE IF text # <<>> /\ Head(text) = "-"
  THEN LET r == ScanDigits(Tail(text), FALSE, 0) IN [r EXCEPT !.n = 0 - @]
  ELSE IF text # <<>> /\ Head(text) = "+" THEN ScanDigits(Tail(text), FALSE, 0)
  ELSE ScanDigits(text, FALSE, 0)

\* ------------------------------------------------------ config.json, as a file
\* A config.json that is there but is not JSON, and one that cannot be read.
Malformed == [malformed |-> TRUE]
Unreadable == [unreadable |-> TRUE]

\* config.Config: the key of each field in the file, for encoding/json and for
\* viper's Unmarshal.
JsonTagCamel ==
  [aiProvider |-> "aiProvider", apiKey |-> "apiKey", baseURL |-> "baseURL",
   minutes |-> "checkIntervalMinutes", rootPath |-> "rootPath"]

JsonTag ==
  [aiProvider |-> "ai_provider", apiKey |-> "api_key", baseURL |-> "base_url",
   minutes |-> "check_interval_minutes", rootPath |-> "root_path"]

MapstructureTag ==
  [aiProvider |-> "ai_provider", apiKey |-> "api_key", baseURL |-> "base_url",
   minutes |-> "check_interval_minutes", rootPath |-> "root_path"]

\* json.MarshalIndent(cfg): the JSON object, key -> value; every field is written
\* under its tag (JsonField: the field a key stands for).
JsonField ==
  [k \in {JsonTag[f] : f \in DOMAIN JsonTag} |-> CHOOSE f \in DOMAIN JsonTag : JsonTag[f] = k]

Marshal(cfg) == [k \in DOMAIN JsonField |-> cfg[JsonField[k]]]

\* viper.SetDefault: the values of keys the file does not have.
ViperDefaultMinutes == 10
ViperDefaults ==
  [ai_provider |-> GeminiName, check_interval_minutes |-> ViperDefaultMinutes,
   base_url |-> ""]

\* The Go zero value of each field.
ZeroConfig ==
  [aiProvider |-> <<>>, apiKey |-> <<>>, baseURL |-> "", minutes |-> 0, rootPath |-> ""]

\* viper.Unmarshal(&cfg) after ReadInConfig read the object: a key of the file
\* gives its value, a missing key its default, or the zero value.
Unmarshal(object) ==
  [f \in DOMAIN MapstructureTag |->
     LET k == MapstructureTag[f] IN
     IF k \in DOMAIN object THEN object[k]
     ELSE IF k \in DOMAIN ViperDefaults THEN ViperDefaults[k]
     ELSE ZeroConfig[f]]

VARIABLES
  daemons,      \* pid -> the process: main goroutine pc, loop goroutine pc, Daemon fields
  desc,         \* daemon.json: None or [pid, path, status]
  config,       \* config.json: None, Malformed, Unreadable or the JSON object, key -> value
  tree,         \* repo -> [unstaged, staged]: the working tree and the index
  unpushed,     \* repo -> number of local commits not on the remote
  nextPid,      \* the pid the next spawned process gets
  out           \* what the step just taken printed and returned on the user's terminal

vars == <<daemons, desc, config, tree, unpushed, nextPid, out>>

\* A step of a daemon or of the environment: nothing reaches the user's terminal
\* (the daemon's stdout and stderr are the null device).
NoReport == [cmd |-> "none"]

\* ---------------------------------------------------------- process records
\* A process that does not exist: before its spawn (main "none") and after its end
\* (main "exited": returned, failed or killed), when its memory is gone.
NoProcess(how) ==
  [main |-> how, loop |-> "none", rootPath |-> NoRepo, status |-> StatusRunning,
   ticker |-> "nil", tickPending |-> FALSE, sigPending |-> FALSE, logOpen |-> FALSE,
   trace |-> <<>>, notes |-> <<>>, inflight |-> 0, minutes |-> 0, log |-> <<>>,
   aiProvider |-> None, diff |-> None, request |-> None]

\* A process exists from its spawn until it exits or is killed.
Alive(p) == daemons[p].main \notin {"none", "exited"}

\* isProcessRunning: the existence probe with signal 0.
isProcessRunning(pid) == pid \in Pids /\ Alive(pid)

\* The loop goroutine is inside checkAndCommit.
InCycle(p) == daemons[p].loop \in {Steps[i] : i \in 1..Len(Steps)}

Init ==
  /\ daemons = [p \in Pids |-> NoProcess("none")]
  /\ desc = None
  /\ config = None
  /\ tree = [r \in Repos |-> [unstaged |-> FALSE, staged |-> FALSE]]
  /\ unpushed = [r \in Repos |-> 0]
  /\ nextPid = 1
  /\ out = NoReport

\* ------------------------------------------------------------- small helpers
setDaemon(p, dm) == daemons' = [daemons EXCEPT ![p] = dm]

StepIndex(step) == CHOOSE i \in 1..Len(Steps) : Steps[i] = step

\* time.Ticker.Stop: no more ticks are sent. Stop does not close the channel; a tick
\* already sent to the one-slot channel stays receivable under the pre-1.23 timer
\* channels and is discarded under the 1.23 ones. Both outcomes are kept: the set of
\* values tickPending may have after Stop.
StaleTick(dm) == IF dm.tickPending THEN {TRUE, FALSE} ELSE {FALSE}

\* if d.ticker != nil { d.ticker.Stop() }
tickerStop(dm, pending) ==
  IF dm.ticker = "nil" THEN dm
  ELSE [dm EXCEPT !.ticker = "stopped", !.tickPending = pending]

\* ------------------------------------------------------- git collaborator
\* git status --porcelain prints something: tracked changes, staged or not.
HasChanges(t) == t.unstaged \/ t.staged

\* git add . : everything in the working tree goes to the index.
AddAllTree(t) == [unstaged |-> FALSE, staged |-> t.staged \/ t.unstaged]

\* git commit -m: fails when the index holds nothing to commit.
CommitOutcomes(t) == IF t.staged THEN {"ok", "err"} ELSE {"err"}

\* One more local commit, counted up to MaxUnpushed.
CountUp(n) == IF n < MaxUnpushed THEN n + 1 ELSE n

\* git commit: the index becomes a commit.
CommitTree(t) == [t EXCEPT !.staged = FALSE]

\* ------------------------------------------------- checkAndCommit, per step
\* "No changes detected" that does not return.
ReturnsAfterErrOnly(step, oc) == oc = "err" \/ step = "push"

\* A failed generation that goes on with a fallback message.
ReturnsAfterFallback(step, oc) == (oc # "ok" /\ step # "generate") \/ step = "push"

\* checkAndCommit returns after this step: every error path returns, "No changes
\* detected" returns, and the push step is the last one.
ReturnsAfter(step, oc) == oc # "ok" \/ step = "push"

\* Every failed step sets the status to error.
StatusAfterAnyError(step, oc, cur) ==
  IF oc = "err" THEN StatusError
  ELSE IF step = "push" THEN StatusRunning ELSE cur

\* d.status after a step: only the push step assigns it.
StatusAfter(step, oc, cur) ==
  IF step = "push" THEN (IF oc = "ok" THEN StatusRunning ELSE StatusError) ELSE cur

\* The push failure path stops the ticker.
StopsTicker(step, oc) == step = "push" /\ oc = "err"

\* A desktop notification of daemon dm: its kind and the repository it names
\* (d.repoName, the base name of the root).
Note(kind, dm) == [kind |-> kind, repo |-> dm.rootPath]

\* A checkAndCommit that notifies the user of every failed step.
NotesAfterEveryFailure(dm, step, oc) ==
  IF oc = "err" THEN <<Note("error", dm)>>
  ELSE IF step = "push" /\ oc = "ok" THEN <<Note("success", dm)>> ELSE <<>>

\* notify.NotifyError on a failed push, notify.NotifySuccess on a successful one.
NotesAfter(dm, step, oc) ==
  IF step # "push" THEN <<>>
  ELSE IF oc = "ok" THEN <<Note("success", dm)>> ELSE <<Note("error", dm)>>

\* A failed push that undoes the commit it could not push.
UnpushedAfterPushRollback(oc, n) == IF oc = "ok" THEN 0 ELSE IF n > 0 THEN n - 1 ELSE 0

\* Local commits not on the remote, after git push: a failed push leaves them.
UnpushedAfterPush(oc, n) == IF oc = "ok" THEN 0 ELSE n

\* The records checkAndCommit writes with d.logger.Printf in the course of one
\* step: its opening line belongs to detection; a diff that was read and a
\* staging that succeeded write nothing.
LogAfter(step, oc) ==
  LET Info(text) == [level |-> "INFO", text |-> text]
      opening == IF step = "detect" THEN <<Info("Checking for changes...")>> ELSE <<>>
  IN  IF oc = "err" THEN opening \o <<[level |-> "ERROR", step |-> step]>>
      ELSE IF step = "detect" THEN
        opening \o <<Info(IF oc = "none" THEN "No changes detected"
                          ELSE "Changes detected, generating commit message...")>>
      ELSE IF step = "generate" THEN <<Info("Generated commit message")>>
      ELSE IF step = "commit" THEN <<Info("Committed successfully")>>
      ELSE IF step = "push" THEN <<Info("Pushed successfully")>>
      ELSE <<>>

\* The Daemon after one step of checkAndCommit ended with outcome oc; pending is
\* the tick left in the channel if the step stops the ticker.
afterStep(dm, step, oc, pending) ==
  LET ends == ReturnsAfter(step, oc)
      dt == IF StopsTicker(step, oc) THEN tickerStop(dm, pending) ELSE dm
  IN [dt EXCEPT !.trace = Append(@, <<step, oc>>),
                !.loop = IF ends THEN "select" ELSE Steps[StepIndex(step) + 1],
                !.status = StatusAfter(step, oc, @),
                !.notes = @ \o NotesAfter(dm, step, oc),
                !.log = @ \o LogAfter(step, oc),
                !.inflight = IF ends THEN @ - 1 ELSE @]

\* git.HasChanges
Detect(p) ==
  /\ Alive(p) /\ daemons[p].loop = "detect"
  /\ \E oc \in {"err", IF HasChanges(tree[daemons[p].rootPath]) THEN "ok" ELSE "none"} :
       setDaemon(p, afterStep(daemons[p], "detect", oc, daemons[p].tickPending))
  /\ UNCHANGED <<desc, config, tree, unpushed, nextPid>>
  /\ out' = NoReport

\* The output of git diff in the daemon's cycles: empty (the changes are staged or
\* untracked files), short, of exactly the adapters' limit, one byte longer, and
\* longer with the limit inside its second run.
DiffInputs ==
  {<<>>, <<[ch |-> "a", n |-> 3]>>, <<[ch |-> "a", n |-> MaxDiffLen]>>,
   <<[ch |-> "a", n |-> MaxDiffLen + 1]>>,
   <<[ch |-> "a", n |-> 60000], [ch |-> "\n", n |-> 60000]>>}

\* What git diff prints for tree t: the modifications of tracked files that are
\* not staged. Changes that are all in the index print nothing; changes of the
\* working tree print nothing when they are new (untracked) files only.
GitDiff(t) == IF t.unstaged THEN DiffInputs ELSE {<<>>}

\* git.GetDiff
GetDiff(p) ==
  /\ Alive(p) /\ daemons[p].loop = "diff"
  /\ \E oc \in {"ok", "err"} : \E text \in GitDiff(tree[daemons[p].rootPath]) :
       setDaemon(p, [afterStep(daemons[p], "diff", oc, daemons[p].tickPending)
                       EXCEPT !.diff = IF oc = "ok" THEN [text |-> text] ELSE None])
  /\ UNCHANGED <<desc, config, tree, unpushed, nextPid>>
  /\ out' = NoReport

\* GenerateCommitMsg returns an error before any request when the adapter has no
\* credential; otherwise the request is sent and the backend answers or fails.
GenerateOutcomes(ai) == IF ai.apiKey = <<>> THEN {"err"} ELSE {"ok", "err"}

\* What the adapter puts into its request: the endpoint of the openai adapter and
\* the diff as it stands in the prompt; None when no request is built.
Request(ai, diff) ==
  IF ai.apiKey = <<>> THEN None
  ELSE [adapter |-> ai.adapter, baseURL |-> ai.baseURL, diff |-> TruncateDiff(diff)]

\* d.aiProvider.GenerateCommitMsg
GenerateCommitMsg(p) ==
  /\ Alive(p) /\ daemons[p].loop = "generate"
  /\ \E oc \in GenerateOutcomes(daemons[p].aiProvider) :
       setDaemon(p, [afterStep(daemons[p], "generate", oc, daemons[p].tickPending)
                       EXCEPT !.request = Request(daemons[p].aiProvider, daemons[p].diff.text)])
  /\ UNCHANGED <<desc, config, tree, unpushed, nextPid>>
  /\ out' = NoReport

\* git.AddAll
AddAll(p) ==
  /\ Alive(p) /\ daemons[p].loop = "stage"
  /\ \E oc \in {"ok", "err"} :
       /\ setDaemon(p, afterStep(daemons[p], "stage", oc, daemons[p].tickPending))
       /\ tree' = IF oc = "ok"
                  THEN [tree EXCEPT ![daemons[p].rootPath] = AddAllTree(@)]
                  ELSE tree
  /\ UNCHANGED <<desc, config, unpushed, nextPid>>
  /\ out' = NoReport

\* git.Commit
Commit(p) ==
  /\ Alive(p) /\ daemons[p].loop = "commit"
  /\ LET r == daemons[p].rootPath IN
     \E oc \in CommitOutcomes(tree[r]) :
       /\ setDaemon(p, afterStep(daemons[p], "commit", oc, daemons[p].tickPending))
       /\ tree' = IF oc = "ok" THEN [tree EXCEPT ![r] = CommitTree(@)] ELSE tree
       /\ unpushed' = IF oc = "ok" THEN [unpushed EXCEPT ![r] = CountUp(@)] ELSE unpushed
  /\ UNCHANGED <<desc, config, nextPid>>
  /\ out' = NoReport

\* git.Push, and what checkAndCommit does with its result
Push(p) ==
  /\ Alive(p) /\ daemons[p].loop = "push"
  /\ LET r == daemons[p].rootPath IN
     \E oc \in {"ok", "err"} : \E pending \in StaleTick(daemons[p]) :
       /\ StopsTicker("push", oc) \/ pending = daemons[p].tickPending
       /\ setDaemon(p, afterStep(daemons[p], "push", oc, pending))
       /\ unpushed' = [unpushed EXCEPT ![r] = UnpushedAfterPush(oc, @)]
  /\ UNCHANGED <<desc, config, tree, nextPid>>
  /\ out' = NoReport

\* --------------------------------------------------- runLoop: the for/select
\* A tick handled whether or not the previous call has returned (go d.checkAndCommit()).
AtSelectOrBusy(dm) == dm.loop \in {"select"} \cup {Steps[i] : i \in 1..Len(Steps)}

\* The loop goroutine is blocked in the select of runLoop: checkAndCommit is called
\* synchronously, so the select is reached only after the call has returned.
AtSelect(dm) == dm.loop = "select"

\* case <-d.ticker.C: d.checkAndCommit()
TickCase(p) ==
  /\ Alive(p) /\ AtSelect(daemons[p])
  /\ daemons[p].tickPending
  /\ setDaemon(p, [daemons[p] EXCEPT !.tickPending = FALSE, !.loop = "detect",
                                     !.trace = <<>>, !.notes = <<>>, !.log = <<>>,
                                     !.diff = None, !.request = None,
                                     !.inflight = @ + 1])
  /\ UNCHANGED <<desc, config, tree, unpushed, nextPid>>
  /\ out' = NoReport

\* A buffered stopChan: the send completes with nobody receiving.
StopSendBuffered(dm) == dm.main = "send"

\* d.stopChan is unbuffered: the send in Stop completes only together with the
\* receive in the select of runLoop.
StopSendReady(dm) == dm.main = "send" /\ dm.loop = "select"

\* case <-d.stopChan, meeting d.stopChan <- true in Stop
StopCase(p) ==
  /\ Alive(p) /\ StopSendReady(daemons[p])
  /\ setDaemon(p, [daemons[p] EXCEPT
                     !.main = "close",
                     !.loop = IF @ = "select" THEN "stopping" ELSE @,
                     !.trace = IF daemons[p].loop = "select" THEN <<>> ELSE @,
                     !.log = IF daemons[p].loop = "select" THEN <<>> ELSE @,
                     !.diff = IF daemons[p].loop = "select" THEN None ELSE @,
                     !.request = IF daemons[p].loop = "select" THEN None ELSE @,
                     !.notes = IF daemons[p].loop = "select" THEN <<>> ELSE @])
  /\ UNCHANGED <<desc, config, tree, unpushed, nextPid>>
  /\ out' = NoReport

\* The record the loop writes on its way out.
DaemonStopped == [level |-> "INFO", text |-> "Daemon stopped"]

\* d.logger.Printf on the log file: the record is appended while the file is open;
\* on a closed file the write fails, Printf drops the error and the record is lost.
Printf(dm, record) == IF dm.logOpen THEN Append(dm.log, record) ELSE dm.log

\* d.ticker.Stop(); d.logger.Printf("Daemon stopped"); return
LoopReturn(p) ==
  /\ Alive(p) /\ daemons[p].loop = "stopping"
  /\ \E pending \in StaleTick(daemons[p]) :
       setDaemon(p, [tickerStop(daemons[p], pending) EXCEPT
                       !.loop = "returned",
                       !.log = Printf(daemons[p], DaemonStopped)])
  /\ UNCHANGED <<desc, config, tree, unpushed, nextPid>>
  /\ out' = NoReport

\* The runtime timer sends a tick into the one-slot channel; a tick that finds the
\* slot full is dropped.
Tick(p) ==
  /\ Alive(p) /\ daemons[p].ticker = "active" /\ ~daemons[p].tickPending
  /\ setDaemon(p, [daemons[p] EXCEPT !.tickPending = TRUE])
  /\ UNCHANGED <<desc, config, tree, unpushed, nextPid>>
  /\ out' = NoReport

\* ------------------------------------------------------------ configuration
\* LoadConfig with no config.json: the default record (no credential, no root) is
\* written and returned.
DefaultConfigMinutes == 10
DefaultConfig ==
  [aiProvider |-> GeminiName, apiKey |-> <<>>, baseURL |-> "",
   minutes |-> DefaultConfigMinutes, rootPath |-> ""]

\* The error LoadConfig returns for the file it finds. writeOk: the default record
\* can be written (SaveConfig succeeds if it is called).
LoadConfigErr(file, writeOk) ==
  IF file = None
  THEN (IF writeOk THEN "nil" ELSE "failed to create default config")
  ELSE IF file \in {Malformed, Unreadable} THEN "failed to read config"
  ELSE "nil"

\* The record LoadConfig returns when it returns one.
LoadConfig == IF config = None THEN DefaultConfig ELSE Unmarshal(config)

\* config.json after a LoadConfig that returned a record: the default record is
\* there if no file was.
AfterLoadConfig == IF config = None THEN Marshal(DefaultConfig) ELSE config

\* ai.ValidateAPIKey accepts the credential of cfg.
Valid(cfg) == ValidateAPIKey(cfg.aiProvider, cfg.apiKey, cfg.baseURL) = "nil"

\* ------------------------------------------- start-daemon: the main goroutine
\* config.LoadConfig, daemon.NewDaemon (the adapter of the configured provider,
\* the log opened, status running), signal.Notify. An error before d.Start() ends the process with the descriptor
\* left as it is.
Boot(p) ==
  /\ daemons[p].main = "boot"
  /\ \E ok \in BOOLEAN :
       LET cfg == LoadConfig
           ai == NewProvider(cfg.aiProvider, cfg.apiKey, cfg.baseURL)
       IN  /\ setDaemon(p, IF ok /\ config \notin {Malformed, Unreadable} /\ ai.err = "nil"
                           THEN [daemons[p] EXCEPT !.main = "start",
                                                   !.status = StatusRunning,
                                                   !.logOpen = TRUE,
                                                   !.minutes = cfg.minutes,
                                                   !.aiProvider = ai]
                           ELSE NoProcess("exited"))
           /\ config' = AfterLoadConfig
  /\ UNCHANGED <<desc, tree, unpushed, nextPid>>
  /\ out' = NoReport

\* Daemon.Start that ignores the result of git.ChangeToRoot for its control flow:
\* the ticker is created and the loop started even when chdir failed.
StartLoopAnyway(p) ==
  /\ daemons[p].main = "start"
  /\ \E chdirOk \in BOOLEAN :
       setDaemon(p, [daemons[p] EXCEPT !.main = "wait", !.ticker = "active",
                                       !.loop = "detect", !.inflight = @ + 1,
                                       !.status = IF chdirOk THEN @ ELSE StatusError])
  /\ UNCHANGED <<desc, config, tree, unpushed, nextPid>>
  /\ out' = NoReport

\* A runLoop without its initial check: the loop goes straight to its select and
\* the first cycle waits for the first tick.
StartWaitsForTick(p) ==
  /\ daemons[p].main = "start"
  /\ \E chdirOk \in BOOLEAN :
       setDaemon(p, IF chdirOk
                    THEN [daemons[p] EXCEPT !.main = "wait", !.ticker = "active",
                                            !.loop = "select"]
                    ELSE [daemons[p] EXCEPT !.main = "wait", !.status = StatusError])
  /\ UNCHANGED <<desc, config, tree, unpushed, nextPid>>
  /\ out' = NoReport

\* Daemon.Start: chdir to the root; on failure status error and nothing else; on
\* success the ticker is created with GetCheckInterval and runLoop starts with
\* its initial check. time.NewTicker panics on an interval that is not positive:
\* the process dies there, with nothing cleaned up.
Start(p) ==
  /\ daemons[p].main = "start"
  /\ \E chdirOk \in BOOLEAN :
       setDaemon(p, IF ~chdirOk
                    THEN [daemons[p] EXCEPT !.main = "wait", !.status = StatusError]
                    ELSE IF ~IsPositive64(GetCheckInterval(daemons[p].minutes))
                    THEN NoProcess("exited")
                    ELSE [daemons[p] EXCEPT !.main = "wait", !.ticker = "active",
                                            !.loop = "detect", !.inflight = @ + 1])
  /\ UNCHANGED <<desc, config, tree, unpushed, nextPid>>
  /\ out' = NoReport

\* <-sigChan, then Daemon.Stop up to its channel send: the ticker, if any, is stopped.
Stop(p) ==
  /\ daemons[p].main = "wait" /\ daemons[p].sigPending
  /\ \E pending \in StaleTick(daemons[p]) :
       setDaemon(p, [tickerStop(daemons[p], pending) EXCEPT
                       !.main = "send", !.sigPending = FALSE])
  /\ UNCHANGED <<desc, config, tree, unpushed, nextPid>>
  /\ out' = NoReport

\* d.logFile.Close(), the last statement of Daemon.Stop
CloseLog(p) ==
  /\ daemons[p].main = "close"
  /\ setDaemon(p, [daemons[p] EXCEPT !.main = "delete", !.logOpen = FALSE])
  /\ UNCHANGED <<desc, config, tree, unpushed, nextPid>>
  /\ out' = NoReport

\* config.DeleteDaemonInfo removes daemon.json, whatever it holds; RunE returns
\* and the process exits, ending the loop goroutine wherever it is.
DeleteDaemonInfoAndExit(p) ==
  /\ daemons[p].main = "delete"
  /\ desc' = None
  /\ setDaemon(p, NoProcess("exited"))
  /\ UNCHANGED <<config, tree, unpushed, nextPid>>
  /\ out' = NoReport

\* ------------------------------------------------------------- environment
\* SIGTERM reaching a process: before signal.Notify the default action ends it;
\* afterwards the signal goes to sigChan (capacity 1, dropped when full).
signalled(dm) ==
  IF dm.main = "boot" THEN NoProcess("exited") ELSE [dm EXCEPT !.sigPending = TRUE]

\* The user edits a file of the working tree.
Edit(r) ==
  /\ ~tree[r].unstaged
  /\ tree' = [tree EXCEPT ![r].unstaged = TRUE]
  /\ UNCHANGED <<daemons, desc, config, unpushed, nextPid>>
  /\ out' = NoReport

\* The process is killed out of band (SIGKILL, a crash): nothing is cleaned up.
Crash(p) ==
  /\ Alive(p)
  /\ setDaemon(p, NoProcess("exited"))
  /\ UNCHANGED <<desc, config, tree, unpushed, nextPid>>
  /\ out' = NoReport

\* ---------------------------------------------------------------- settings
\* What a command leaves on the terminal: its name and the error RunE returned
\* ("nil": it printed its success line and returned nil).
Report(cmd, err) == [cmd |-> cmd, err |-> err]

\* autogit menu: tui.NewModel calls LoadConfig and the settings tab shows the
\* provider and the interval of the record it got.
OpenSettings ==
  \E writeOk \in BOOLEAN :
    LET err == LoadConfigErr(config, writeOk) IN
    /\ config' = IF err = "nil" THEN AfterLoadConfig ELSE config
    /\ out' = IF err = "nil"
              THEN [cmd |-> "menu", err |-> "nil",
                    aiProvider |-> LoadConfig.aiProvider, minutes |-> LoadConfig.minutes]
              ELSE Report("menu", err)
    /\ UNCHANGED <<daemons, desc, tree, unpushed, nextPid>>

\* A Save that writes the record before it looks at the credential.
SaveWritesUnvalidated(interval, err) == ~interval.err /\ interval.n > 0

\* The settings tab's Save reaches config.SaveConfig: the interval was scanned and
\* is positive, and ai.ValidateAPIKey returned no error.
SaveWrites(interval, err) == ~interval.err /\ interval.n > 0 /\ err = "nil"

\* The settings tab's Save, with the provider selected and the three inputs as
\* typed (s.aiProvider, s.apiKey, s.baseURL, s.interval): the record that NewModel
\* loaded gets the three fields, then the interval once it is scanned. The tab
\* then shows the inputs as they are and saveMessage (err; "nil" is the success
\* message). The file is the one NewModel loaded.
SaveSettings(s) ==
  /\ config \notin {None, Malformed, Unreadable}
  /\ \E interval \in {Sscanf(s.interval)} :
     \E err \in {ValidateAPIKey(s.aiProvider, s.apiKey, s.baseURL)} :
     \E writeOk \in BOOLEAN :
       LET cfg == [Unmarshal(config) EXCEPT !.aiProvider = s.aiProvider,
                                            !.apiKey = s.apiKey,
                                            !.baseURL = s.baseURL,
                                            !.minutes = interval.n]
       IN  /\ config' = IF SaveWrites(interval, err) /\ writeOk THEN Marshal(cfg)
                        ELSE config
           /\ out' = [cmd |-> "save", input |-> s,
                      err |-> IF interval.err \/ interval.n <= 0
                              THEN "Error: Check interval must be a positive number"
                              ELSE IF err # "nil" THEN err
                              ELSE IF ~writeOk THEN "Error saving config"
                              ELSE "nil"]
  /\ UNCHANGED <<daemons, desc, tree, unpushed, nextPid>>

\* A credential of twenty characters that every provider's check accepts.
AnyProviderKey == <<"s", "k", "-", "a", "n", "t", "-">> \o Repeat("0", 13)

\* What the user enters in the settings tab before init: a usable credential.
CliSettings ==
  {[aiProvider |-> OpenAIName, apiKey |-> <<"s", "k", "-", "1">>, baseURL |-> "",
    interval |-> <<"1", "0">>]}

\* --------------------------------------------------------------- commands
\* The error daemon.StartDaemonProcess returns. startOk: os.Executable and
\* filepath.Abs resolved and cmd.Start started the child; descOk: daemon.json can
\* be written (config.SaveDaemonInfo succeeds if it is called).
StartDaemonProcessErr(startOk, descOk) ==
  IF ~startOk THEN "failed to start daemon"
  ELSE IF ~descOk THEN "failed to save daemon info"
  ELSE "nil"

\* A StartDaemonProcess that records the descriptor before cmd.Start, with the pid
\* it expects the child to get, and does not take it back when the start fails.
StartDaemonProcessDescFirst(rootPath, startOk, descOk) ==
  /\ desc' = IF descOk
             THEN [pid |-> nextPid, path |-> rootPath, status |-> StatusRunning]
             ELSE desc
  /\ IF startOk
     THEN /\ daemons' = [daemons EXCEPT ![nextPid] =
                           [NoProcess("boot") EXCEPT !.rootPath = rootPath]]
          /\ nextPid' = nextPid + 1
     ELSE UNCHANGED <<daemons, nextPid>>

\* daemon.StartDaemonProcess: cmd.Start, then config.SaveDaemonInfo with the child's
\* pid, the root and status running.
StartDaemonProcess(rootPath, startOk, descOk) ==
  IF ~startOk
  THEN UNCHANGED <<daemons, desc, nextPid>>
  ELSE /\ daemons' = [daemons EXCEPT ![nextPid] =
                        [NoProcess("boot") EXCEPT !.rootPath = rootPath]]
       /\ nextPid' = nextPid + 1
       /\ desc' = IF descOk
                  THEN [pid |-> nextPid, path |-> rootPath, status |-> StatusRunning]
                  ELSE desc

\* An initCmd without its already-running check.
AlreadyRunningUnchecked(d, rootPath) == FALSE

\* initCmd refuses to start: a live daemon is recorded for this very root.
AlreadyRunning(d, rootPath) ==
  d # None /\ d.path = rootPath /\ isProcessRunning(d.pid)

\* An initCmd without its ai.ValidateAPIKey call.
InitAbortsUnvalidated(cwd) ==
  cwd = NoRepo \/ AlreadyRunning(desc, cwd)

\* initCmd up to its spawn: root detection, the already-running check, LoadConfig
\* (which writes the default record when config.json is absent), ValidateAPIKey.
InitAborts(cwd) ==
  \/ cwd = NoRepo \/ AlreadyRunning(desc, cwd)
  \/ config \in {Malformed, Unreadable} \/ ~Valid(LoadConfig)

\* initCmd from cfg.RootPath = rootPath on: SaveConfig, then StartDaemonProcess.
InitSpawn(cwd, startOk, descOk) ==
  /\ config' = Marshal([LoadConfig EXCEPT !.rootPath = cwd])
  /\ StartDaemonProcess(cwd, startOk, descOk)
  /\ out' = Report("init", StartDaemonProcessErr(startOk, descOk))
  /\ UNCHANGED <<tree, unpushed>>

\* autogit init, run in directory cwd.
InitCmd(cwd) ==
  /\ nextPid <= MaxPids
  /\ \/ \* everything up to SaveConfig succeeded; the spawn: started and recorded,
        \* started but daemon.json not written, not started
        /\ ~InitAborts(cwd)
        /\ \/ InitSpawn(cwd, TRUE, TRUE)
           \/ InitSpawn(cwd, TRUE, FALSE)
           \/ \E descOk \in BOOLEAN : InitSpawn(cwd, FALSE, descOk)
     \/ \* SaveConfig fails: nothing is written, nothing is spawned
        /\ ~InitAborts(cwd)
        /\ out' = Report("init", "failed to save config")
        /\ UNCHANGED <<daemons, desc, config, tree, unpushed, nextPid>>
     \/ \* git.GetRootPath fails: no git root
        /\ cwd = NoRepo
        /\ out' = Report("init", "failed to detect Git root")
        /\ UNCHANGED <<daemons, desc, config, tree, unpushed, nextPid>>
     \/ \* a live daemon is recorded for this root
        /\ cwd # NoRepo /\ AlreadyRunning(desc, cwd)
        /\ out' = Report("init", "daemon is already running for this repository")
        /\ UNCHANGED <<daemons, desc, config, tree, unpushed, nextPid>>
     \/ \* LoadConfig fails: config.json is absent and the default cannot be written,
        \* or it is there and cannot be read
        /\ cwd # NoRepo /\ ~AlreadyRunning(desc, cwd)
        /\ LoadConfigErr(config, FALSE) # "nil"
        /\ out' = Report("init", "failed to load config")
        /\ UNCHANGED <<daemons, desc, config, tree, unpushed, nextPid>>
     \/ \* the credential is rejected, after LoadConfig
        /\ cwd # NoRepo /\ ~AlreadyRunning(desc, cwd)
        /\ config \notin {Malformed, Unreadable} /\ ~Valid(LoadConfig)
        /\ config' = AfterLoadConfig
        /\ out' = Report("init", "API key validation failed")
        /\ UNCHANGED <<daemons, desc, tree, unpushed, nextPid>>

\* A pause that takes "nothing to stop" for done: no descriptor is not an error.
PauseErrLenient(d, sigOk) ==
  IF d = None THEN "nil"
  ELSE IF ~isProcessRunning(d.pid) THEN "daemon process not found (may have crashed)"
  ELSE IF ~sigOk THEN "failed to stop daemon"
  ELSE "nil"

\* The error pauseCmd returns for descriptor d. sigOk: process.Signal(SIGTERM)
\* returned no error.
PauseErr(d, sigOk) ==
  IF d = None THEN "no daemon is running"
  ELSE IF ~isProcessRunning(d.pid) THEN "daemon process not found (may have crashed)"
  ELSE IF ~sigOk THEN "failed to stop daemon"
  ELSE "nil"

\* pauseCmd sends SIGTERM to d.pid, once the probe found the pid live.
PauseSends(d, sigOk) == d # None /\ isProcessRunning(d.pid) /\ sigOk

\* A pause that removes daemon.json only after a signal was sent.
PauseDeletesOnSuccess(d, sigOk) == d # None /\ isProcessRunning(d.pid) /\ sigOk

\* A pause that removes daemon.json whenever there is one, before signalling.
PauseDeletesAlways(d, sigOk) == d # None

\* pauseCmd calls config.DeleteDaemonInfo: for a pid that is not live, and after
\* the signal was sent.
PauseDeletes(d, sigOk) == d # None /\ (~isProcessRunning(d.pid) \/ sigOk)

\* autogit pause: it returns as soon as the signal is sent.
PauseCmd ==
  \E sigOk \in BOOLEAN :
    /\ daemons' = IF PauseSends(desc, sigOk)
                  THEN [daemons EXCEPT ![desc.pid] = signalled(@)]
                  ELSE daemons
    /\ desc' = IF PauseDeletes(desc, sigOk) THEN None ELSE desc
    /\ out' = Report("pause", PauseErr(desc, sigOk))
    /\ UNCHANGED <<config, tree, unpushed, nextPid>>

\* A status that trusts daemon.json: the stored fields are printed without probing
\* the pid.
StatusReportStored(d) ==
  IF d = None THEN [cmd |-> "status", line |-> "Not running"]
  ELSE [cmd |-> "status", line |-> d.status, pid |-> d.pid, path |-> d.path]

\* What autogit status prints for descriptor d: one line, or the stored status
\* with the pid and the repository.
StatusReport(d) ==
  IF d = None THEN [cmd |-> "status", line |-> "Not running"]
  ELSE IF ~isProcessRunning(d.pid)
  THEN [cmd |-> "status", line |-> "Process not found (may have crashed)"]
  ELSE [cmd |-> "status", line |-> d.status, pid |-> d.pid, path |-> d.path]

\* autogit status: prints StatusReport and changes nothing.
StatusCmd ==
  /\ out' = StatusReport(desc)
  /\ UNCHANGED <<daemons, desc, config, tree, unpushed, nextPid>>

\* The status line of the dashboard tab for descriptor d: the stored status is
\* shown as it is, and the pid is not probed.
DashboardStatus(d) ==
  IF d = None THEN "Stopped"
  ELSE IF d.status = StatusRunning THEN "Running"
  ELSE "Error"

\* model.updateDashboard, run when the menu opens and on every tick of the TUI:
\* it reads daemon.json and shows the status line and the repository.
UpdateDashboard ==
  /\ out' = [cmd |-> "dashboard", status |-> DashboardStatus(desc),
             repoPath |-> IF desc = None THEN "Not initialized" ELSE desc.path]
  /\ UNCHANGED <<daemons, desc, config, tree, unpushed, nextPid>>

\* ----------------------------------------------------------- specification
Next ==
  \/ \E p \in Pids : Boot(p) \/ Start(p) \/ Stop(p) \/ CloseLog(p)
  \/ \E p \in Pids : DeleteDaemonInfoAndExit(p)
  \/ \E p \in Pids : Detect(p) \/ GetDiff(p) \/ GenerateCommitMsg(p)
  \/ \E p \in Pids : AddAll(p) \/ Commit(p) \/ Push(p)
  \/ \E p \in Pids : TickCase(p) \/ StopCase(p) \/ LoopReturn(p)
  \/ \E p \in Pids : Tick(p) \/ Crash(p)
  \/ \E r \in Repos : Edit(r)
  \/ \E cwd \in Repos \cup {NoRepo} : InitCmd(cwd)
  \/ PauseCmd
  \/ StatusCmd
  \/ OpenSettings
  \/ \E s \in CliSettings : SaveSettings(s)
  \/ UpdateDashboard

Spec == Init /\ [][Next]_vars

\* The commands and the daemons they spawn, in repositories nobody edits: every
\* cycle of every daemon ends at its detection step. What the commands read and
\* write (config.json, daemon.json, the process table, the signals) is as in Spec.
CliNext ==
  \/ \E p \in Pids : Boot(p) \/ Start(p) \/ Stop(p) \/ CloseLog(p)
  \/ \E p \in Pids : DeleteDaemonInfoAndExit(p)
  \/ \E p \in Pids : Detect(p) \/ TickCase(p) \/ StopCase(p) \/ LoopReturn(p)
  \/ \E p \in Pids : Tick(p) \/ Crash(p)
  \/ \E cwd \in Repos \cup {NoRepo} : InitCmd(cwd)
  \/ PauseCmd
  \/ StatusCmd
  \/ \E s \in CliSettings : SaveSettings(s)

CliSpec == Init /\ [][CliNext]_vars

\* The record a successful init in root r saved, with a credential the settings
\* tab accepted and an interval of n minutes.
InitConfig(r, n) ==
  [aiProvider |-> GeminiName, apiKey |-> AnyProviderKey, baseURL |-> "",
   minutes |-> n, rootPath |-> r]

\* One daemon process, from its exec by a successful init in repository r to its
\* end, with everything that acts on it from outside: ticks, edits of the working
\* tree, pause and status run by the user, a kill.
DaemonInit ==
  \E r \in Repos :
    /\ daemons = [p \in Pids |->
                    IF p = 1 THEN [NoProcess("boot") EXCEPT !.rootPath = r]
                    ELSE NoProcess("none")]
    /\ desc = [pid |-> 1, path |-> r, status |-> StatusRunning]
    /\ config = Marshal(InitConfig(r, DefaultConfigMinutes))
    /\ tree = [q \in Repos |-> [unstaged |-> FALSE, staged |-> FALSE]]
    /\ unpushed = [q \in Repos |-> 0]
    /\ nextPid = 2
    /\ out = NoReport

\* The steps of the daemon process: its main goroutine and its loop goroutine.
DaemonStep(p) ==
  \/ Boot(p) \/ Start(p) \/ Stop(p) \/ CloseLog(p) \/ DeleteDaemonInfoAndExit(p)
  \/ Detect(p) \/ GetDiff(p) \/ GenerateCommitMsg(p) \/ AddAll(p) \/ Commit(p)
  \/ Push(p) \/ TickCase(p) \/ StopCase(p) \/ LoopReturn(p)

DaemonNext ==
  \/ DaemonStep(1)
  \/ Tick(1)
  \/ Crash(1)
  \/ \E r \in Repos : Edit(r)
  \/ PauseCmd
  \/ StatusCmd

DaemonSpec == DaemonInit /\ [][DaemonNext]_vars

\* check_interval_minutes as config.json can hold it: written by the settings tab
\* (any positive number of up to ten digits), or edited by hand.
IntervalInputs == {-1, 0, 1, 10, 153722867, 153722868}

\* The daemon process of DaemonInit, started under a configuration whose interval
\* is any of IntervalInputs.
IntervalInit ==
  \E r \in Repos : \E n \in IntervalInputs :
    /\ daemons = [p \in Pids |->
                    IF p = 1 THEN [NoProcess("boot") EXCEPT !.rootPath = r]
                    ELSE NoProcess("none")]
    /\ desc = [pid |-> 1, path |-> r, status |-> StatusRunning]
    /\ config = Marshal(InitConfig(r, n))
    /\ tree = [q \in Repos |-> [unstaged |-> FALSE, staged |-> FALSE]]
    /\ unpushed = [q \in Repos |-> 0]
    /\ nextPid = 2
    /\ out = NoReport

IntervalSpec == IntervalInit /\ [][DaemonNext]_vars

\* The Go scheduler runs every goroutine that can run, and every step of the
\* daemon (a subprocess call, the bounded backend request) returns.
FairDaemonSpec == DaemonSpec /\ WF_vars(DaemonStep(1))

\* The daemon process of an init run in a repository where an earlier daemon, now
\* gone (paused after a push failure, stopped or killed), left n local commits
\* unpushed.
RestartInit ==
  \E r \in Repos : \E n \in 0..MaxUnpushed :
    /\ daemons = [p \in Pids |->
                    IF p = 1 THEN [NoProcess("boot") EXCEPT !.rootPath = r]
                    ELSE NoProcess("none")]
    /\ desc = [pid |-> 1, path |-> r, status |-> StatusRunning]
    /\ config = Marshal(InitConfig(r, DefaultConfigMinutes))
    /\ tree = [q \in Repos |-> [unstaged |-> FALSE, staged |-> FALSE]]
    /\ unpushed = [q \in Repos |-> IF q = r THEN n ELSE 0]
    /\ nextPid = 2
    /\ out = NoReport

\* The steps of the main goroutine of p; the rendezvous on stopChan is a step of
\* both goroutines.
MainStep(p) ==
  Boot(p) \/ Start(p) \/ Stop(p) \/ StopCase(p) \/ CloseLog(p) \/ DeleteDaemonInfoAndExit(p)

\* The steps of the loop goroutine of p.
LoopStep(p) ==
  \/ Detect(p) \/ GetDiff(p) \/ GenerateCommitMsg(p) \/ AddAll(p) \/ Commit(p)
  \/ Push(p) \/ TickCase(p) \/ StopCase(p) \/ LoopReturn(p)

\* The Go scheduler runs each of the two goroutines when it can run, every step
\* of the daemon returns, and the runtime timer of an active ticker sends its ticks.
FairRestartSpec ==
  /\ RestartInit /\ [][DaemonNext]_vars
  /\ WF_vars(MainStep(1)) /\ WF_vars(LoopStep(1)) /\ WF_vars(Tick(1))

\* The daemon process of DaemonInit, with the menu open on its dashboard tab.
DashboardNext == DaemonNext \/ UpdateDashboard

DashboardSpec == DaemonInit /\ [][DashboardNext]_vars

\* The provider name as config.json can hold it: chosen in the settings tab, or
\* written by hand in any case (ValidateAPIKey and NewProvider lower it).
ProviderInputs ==
  {GeminiName, OpenAIName, <<"O", "p", "e", "n", "A", "I">>, OpenRouterName,
   <<"O", "p", "e", "n", "R", "o", "u", "t", "e", "r">>, AnthropicName, ClaudeName}

\* base_url: empty, or an OpenAI-compatible endpoint of the user's.
BaseURLInputs == {"", "https://llm.example/v1"}

\* The daemon process of DaemonInit, started under a configuration that init
\* accepted, with any of the provider names and base URLs.
ProviderInit ==
  \E r \in Repos : \E name \in ProviderInputs : \E url \in BaseURLInputs :
    /\ daemons = [p \in Pids |->
                    IF p = 1 THEN [NoProcess("boot") EXCEPT !.rootPath = r]
                    ELSE NoProcess("none")]
    /\ desc = [pid |-> 1, path |-> r, status |-> StatusRunning]
    /\ config = Marshal([InitConfig(r, DefaultConfigMinutes) EXCEPT
                           !.aiProvider = name, !.baseURL = url])
    /\ tree = [q \in Repos |-> [unstaged |-> FALSE, staged |-> FALSE]]
    /\ unpushed = [q \in Repos |-> 0]
    /\ nextPid = 2
    /\ out = NoReport

ProviderSpec == ProviderInit /\ [][DaemonNext]_vars

\* config.json as the settings tab can find it: absent, unusable, the default
\* record, a file written by hand with the credential only, and the record of an
\* earlier init.
ConfigFiles ==
  {None, Malformed, Unreadable, Marshal(DefaultConfig), [api_key |-> AnyProviderKey],
   Marshal(InitConfig("repoA", 0))}

\* What the user selects and types in the settings tab.
SettingsInputs ==
  {[aiProvider |-> name, apiKey |-> key, baseURL |-> "", interval |-> <<"1", "0">>] :
     name \in {GeminiName, OpenAIName, OpenRouterName, AnthropicName},
     key \in {<<>>, <<" ">>, <<"s", "k", "-", "1">>, Repeat("k", MinGeminiKeyLen),
              AnyProviderKey}}
  \cup
  {[aiProvider |-> OpenRouterName, apiKey |-> AnyProviderKey, baseURL |-> url,
    interval |-> text] :
     url \in BaseURLInputs,
     text \in {<<>>, <<"0">>, <<"-", "5">>, <<"a", "b", "c">>, <<"7", "x">>,
               <<"1">>, <<"1", "0">>}}

\* The settings tab, opened and used on any of the files, with no daemon around.
SettingsInit ==
  /\ daemons = [p \in Pids |-> NoProcess("none")]
  /\ desc = None
  /\ config \in ConfigFiles
  /\ tree = [r \in Repos |-> [unstaged |-> FALSE, staged |-> FALSE]]
  /\ unpushed = [r \in Repos |-> 0]
  /\ nextPid = 1
  /\ out = NoReport

SettingsNext ==
  \/ OpenSettings
  \/ \E s \in SettingsInputs : SaveSettings(s)

SettingsSpec == SettingsInit /\ [][SettingsNext]_vars

\* ------------------------------------------------------------------ claims
LastOf(seq) == seq[Len(seq)]

\* The loop goroutine exists and has not been told to stop.
LoopRunning(p) == Alive(p) /\ (InCycle(p) \/ daemons[p].loop = "select")

\* The loop is idle after a push failure put the daemon in status error.
PausedOnError(p) ==
  Alive(p) /\ daemons[p].loop = "select" /\ daemons[p].status = StatusError

\* The step that follows `step` in a cycle, if any.
Following(step) ==
  IF StepIndex(step) < Len(Steps) THEN {Steps[StepIndex(step) + 1]} ELSE {}

\* The step p takes is checkAndCommit's step `step` ending with outcome oc.
StepDone(p, step, oc) ==
  /\ Alive(p) /\ daemons[p].loop = step
  /\ daemons'[p].trace = Append(daemons[p].trace, <<step, oc>>)

\* C1: once the loop has paused on a push failure, no further checkAndCommit cycle
\* starts in that process: the loop never goes from the paused select to detection.
C1_NoCycleAfterPause ==
  [][\A p \in Pids : PausedOnError(p) => daemons'[p].loop # "detect"]_vars

\* C2: the step in which the push fails leaves the local commits and the working
\* tree as they are (the commit of this cycle stays, nothing is reset), sets the
\* status to error (one assignment, with one error notification) and stops the
\* ticker, all in that one step.
C2_PushFailureStep ==
  [][\A p \in Pids : StepDone(p, "push", "err") =>
       /\ unpushed' = unpushed
       /\ tree' = tree
       /\ daemons'[p].status = StatusError
       /\ daemons'[p].notes = <<Note("error", daemons[p])>>
       /\ daemons'[p].ticker = "stopped"
       /\ daemons'[p].loop = "select"]_vars

\* C2 witness: a push has just failed in a daemon that was running; the commit of
\* the cycle is still there, the status is error and the ticker is stopped.
C2_Witness ==
  \E p \in Pids :
    /\ PausedOnError(p)
    /\ Len(daemons[p].trace) = Len(Steps)
    /\ LastOf(daemons[p].trace) = <<"push", "err">>
    /\ daemons[p].ticker = "stopped"
    /\ unpushed[daemons[p].rootPath] >= 1

\* C3: the descriptor's status field is the status of the daemon it names, once
\* that daemon has run Start: status transitions are written to daemon.json.
C3_DescriptorTracksStatus ==
  \A p \in Pids :
    (Alive(p) /\ daemons[p].main \notin {"boot", "start"} /\ desc # None /\ desc.pid = p)
      => desc.status = daemons[p].status

\* C4: once the daemon has taken the stop signal (it is in Stop, at the send on
\* stopChan), it eventually ends: Stop returns, the log is closed, the descriptor
\* is deleted and the process exits.
C4_StopLeadsToStopped ==
  \A p \in Pids : (daemons[p].main = "send") ~> (daemons[p].main = "exited")

\* C5: only one monitored repository is actively supervised at a time: while the
\* descriptor names a daemon that is running its loop, every daemon process that
\* is alive and running its loop monitors the root the descriptor records.
C5_OneSupervisedRepository ==
  (desc # None /\ LoopRunning(desc.pid)) =>
    \A q \in Pids : LoopRunning(q) => daemons[q].rootPath = desc.path

\* C6: inside one daemon process at most one checkAndCommit is in flight, and one
\* is in flight exactly while the loop goroutine is inside the call.
C6_CyclesNeverOverlap ==
  \A p \in Pids :
    /\ daemons[p].inflight <= 1
    /\ Alive(p) => (InCycle(p) <=> daemons[p].inflight = 1)

\* C6 witness: a tick fell due while a cycle was in flight (it waits in the
\* channel), and still only that one cycle is running.
C6_Witness ==
  \E p \in Pids :
    /\ Alive(p) /\ daemons[p].loop = "commit"
    /\ daemons[p].tickPending /\ daemons[p].ticker = "active"
    /\ daemons[p].inflight = 1

\* C7: while a cycle is in flight the stop is not honored: Stop has not got past
\* its send on stopChan, the log file is open and the loop has not been told to
\* return; a step of the cycle leads to the next step or to the cycle's end.
C7_StopOnlyBetweenCycles ==
  /\ [](\A p \in Pids : (Alive(p) /\ InCycle(p)) =>
          /\ daemons[p].main \in {"wait", "send"}
          /\ daemons[p].logOpen)
  /\ [][\A p \in Pids : (Alive(p) /\ InCycle(p) /\ Alive(p)' /\ daemons'[p] # daemons[p]
                          /\ daemons'[p].loop # daemons[p].loop) =>
          /\ daemons'[p].loop \in {"select"} \cup Following(daemons[p].loop)
          /\ Len(daemons'[p].trace) = Len(daemons[p].trace) + 1]_vars

\* C7 witness: the stop signal has been taken (Stop is blocked at its send) while
\* the cycle is past staging and about to push, with the log still open.
C7_Witness ==
  \E p \in Pids :
    /\ daemons[p].main = "send" /\ daemons[p].loop = "push"
    /\ daemons[p].logOpen /\ daemons[p].ticker = "stopped"

\* C8: a cycle whose detection finds no changes ends there: no diff, generation,
\* staging, commit or push step follows in that cycle, no notification is sent,
\* and the step changes neither the status, the ticker, the tree nor the commits.
C8_NoChangesCycle ==
  /\ [](\A p \in Pids :
          (Len(daemons[p].trace) >= 1 /\ daemons[p].trace[1] = <<"detect", "none">>) =>
            /\ Len(daemons[p].trace) = 1
            /\ daemons[p].notes = <<>>
            /\ ~InCycle(p))
  /\ [][\A p \in Pids : StepDone(p, "detect", "none") =>
          /\ daemons'[p].status = daemons[p].status
          /\ daemons'[p].ticker = daemons[p].ticker
          /\ daemons'[p].loop = "select"
          /\ tree' = tree /\ unpushed' = unpushed /\ desc' = desc]_vars

\* C8 witness: a cycle has ended on "No changes detected" in a running daemon.
C8_Witness ==
  \E p \in Pids :
    /\ Alive(p) /\ daemons[p].loop = "select"
    /\ daemons[p].trace = << <<"detect", "none">> >>
    /\ daemons[p].status = StatusRunning /\ daemons[p].ticker = "active"

\* C9: the steps of a cycle run in the order detect, diff, generate, stage, commit,
\* push; a step is invoked only if every earlier step of the cycle succeeded.
C9_StepOrder ==
  \A p \in Pids :
    LET tr == daemons[p].trace IN
    /\ Len(tr) <= Len(Steps)
    /\ \A i \in 1..Len(tr) :
         /\ tr[i][1] = Steps[i]
         /\ i < Len(tr) => tr[i][2] = "ok"
    /\ (Alive(p) /\ InCycle(p)) =>
         /\ daemons[p].loop = Steps[Len(tr) + 1]
         /\ Len(tr) > 0 => LastOf(tr)[2] = "ok"

\* C9 witness: a cycle ended at a failed generation, after detect and diff, with
\* nothing staged by it.
C9_Witness ==
  \E p \in Pids :
    /\ Alive(p) /\ daemons[p].loop = "select"
    /\ daemons[p].trace = << <<"detect", "ok">>, <<"diff", "ok">>, <<"generate", "err">> >>
    /\ tree[daemons[p].rootPath].unstaged /\ ~tree[daemons[p].rootPath].staged

\* C10: a step that fails before push changes neither the status nor the ticker
\* and returns the loop to its select; the next cycle starts from detection with
\* nothing carried over; within the loop only a failed push leaves status running.
C10_TransientFailures ==
  /\ [][\A p \in Pids : \A i \in 1..(Len(Steps) - 1) : StepDone(p, Steps[i], "err") =>
          /\ daemons'[p].status = daemons[p].status
          /\ daemons'[p].ticker = daemons[p].ticker
          /\ daemons'[p].tickPending = daemons[p].tickPending
          /\ daemons'[p].loop = "select"]_vars
  /\ [][\A p \in Pids : (Alive(p) /\ daemons[p].loop = "select" /\ Alive(p)'
                          /\ daemons'[p].loop \in {Steps[i] : i \in 1..Len(Steps)}) =>
          /\ daemons[p].tickPending /\ ~daemons'[p].tickPending
          /\ daemons'[p].loop = "detect" /\ daemons'[p].trace = <<>>]_vars
  /\ [][\A p \in Pids : (LoopRunning(p) /\ Alive(p)' /\ daemons[p].status = StatusRunning
                          /\ daemons'[p].status # StatusRunning) =>
          StepDone(p, "push", "err")]_vars

\* C10 witness: a cycle failed at commit, the daemon is still running with its
\* ticker active, and the next tick is waiting to start a new cycle.
C10_Witness ==
  \E p \in Pids :
    /\ Alive(p) /\ daemons[p].loop = "select"
    /\ Len(daemons[p].trace) = 5 /\ LastOf(daemons[p].trace) = <<"commit", "err">>
    /\ daemons[p].status = StatusRunning /\ daemons[p].ticker = "active"
    /\ daemons[p].tickPending

\* The process has run Daemon.Start and has no loop goroutine.
StartedWithoutLoop(p) ==
  Alive(p) /\ daemons[p].main \notin {"boot", "start"} /\ daemons[p].loop = "none"

\* C11: when the chdir in Daemon.Start fails the daemon is in status error with no
\* ticker and no loop goroutine, and stays so for the rest of the process: no
\* tick is ever produced and no checkAndCommit cycle, not even the initial one,
\* runs in it.
C11_ChdirFailure ==
  /\ [][\A p \in Pids : (daemons[p].main = "start" /\ Alive(p)'
                          /\ daemons'[p].status = StatusError) =>
          StartedWithoutLoop(p)']_vars
  /\ [](\A p \in Pids : StartedWithoutLoop(p) =>
          /\ daemons[p].status = StatusError
          /\ daemons[p].ticker = "nil" /\ ~daemons[p].tickPending
          /\ daemons[p].inflight = 0 /\ daemons[p].trace = <<>>
          /\ daemons[p].notes = <<>>)
  /\ [][\A p \in Pids : (StartedWithoutLoop(p) /\ Alive(p)') =>
          StartedWithoutLoop(p)']_vars

\* C11 witness: the chdir failed, and the daemon has since taken a stop signal:
\* it is in Stop with no ticker, no loop and no cycle run.
C11_Witness ==
  \E p \in Pids :
    /\ StartedWithoutLoop(p) /\ daemons[p].main = "send"
    /\ daemons[p].status = StatusError /\ daemons[p].ticker = "nil"
    /\ daemons[p].inflight = 0

\* C12: a successful Start puts the loop in its first cycle at once, with no tick
\* taken from the ticker's channel; any other cycle starts from the select by
\* taking a tick out of the channel, and a tick gets into the channel only from
\* the running ticker that Start created.
C12_FirstCycleThenTicks ==
  /\ [][\A p \in Pids : (daemons[p].main = "start" /\ daemons'[p].main = "wait"
                          /\ daemons'[p].status # StatusError) =>
          /\ daemons'[p].loop = "detect" /\ daemons'[p].trace = <<>>
          /\ daemons'[p].ticker = "active" /\ ~daemons'[p].tickPending]_vars
  /\ [][\A p \in Pids : (Alive(p) /\ Alive(p)' /\ daemons[p].main # "start"
                          /\ daemons'[p].inflight > daemons[p].inflight) =>
          /\ daemons[p].loop = "select" /\ daemons'[p].loop = "detect"
          /\ daemons[p].tickPending /\ ~daemons'[p].tickPending]_vars
  /\ [][\A p \in Pids : (Alive(p)' /\ ~daemons[p].tickPending
                          /\ daemons'[p].tickPending) =>
          /\ daemons[p].ticker = "active"
          /\ daemons'[p] = [daemons[p] EXCEPT !.tickPending = TRUE]]_vars

\* C12 witness: a later cycle is under way, started by a tick that has been taken
\* from the channel, after an earlier cycle of this daemon staged the changes and
\* failed to commit them.
C12_Witness ==
  \E p \in Pids :
    /\ Alive(p) /\ daemons[p].loop = "detect" /\ daemons[p].trace = <<>>
    /\ daemons[p].ticker = "active" /\ ~daemons[p].tickPending
    /\ tree[daemons[p].rootPath].staged

\* The step is a run of command cmd.
Ran(cmd) == out'.cmd = cmd

\* The step starts a new process for root r: the child of StartDaemonProcess.
ChildStarted(r) ==
  /\ ~Alive(nextPid) /\ nextPid' = nextPid + 1
  /\ daemons' = [daemons EXCEPT ![nextPid] = [NoProcess("boot") EXCEPT !.rootPath = r]]

\* C13: an init step writes daemon.json only together with the start of a child,
\* and then with the child's pid, the root the child was given and status running;
\* when StartDaemonProcess fails at the start of the process, init returns the
\* error, no process appears and daemon.json is as it was. A nil error means the
\* child runs and is recorded.
C13_DescriptorAfterStart ==
  /\ [][(Ran("init") /\ desc' # desc) =>
          \E r \in Repos :
            /\ ChildStarted(r)
            /\ desc' = [pid |-> nextPid, path |-> r, status |-> StatusRunning]]_vars
  /\ [][(Ran("init") /\ out'.err = "failed to start daemon") =>
          /\ desc' = desc
          /\ daemons' = daemons /\ nextPid' = nextPid]_vars
  /\ [][(Ran("init") /\ out'.err = "nil") =>
          /\ desc' # None /\ desc'.pid = nextPid /\ ChildStarted(desc'.path)]_vars

\* C13 witness: init in one repository failed to start its daemon while the
\* descriptor of a live daemon of the other repository was there; it still is.
C13_Witness ==
  /\ out = Report("init", "failed to start daemon")
  /\ desc # None /\ isProcessRunning(desc.pid)
  /\ config # None /\ config.root_path # desc.path

\* Everything but the terminal is as it was.
NothingWritten ==
  UNCHANGED <<daemons, desc, config, tree, unpushed, nextPid>>

\* C14: a status step prints "Not running" when daemon.json is absent, the
\* crashed line (and no status, pid or path) when the recorded pid is not live,
\* and otherwise the stored status with the pid and the path; it writes nothing:
\* daemon.json, stale or not, config.json and the processes are as before.
C14_StatusReportsAndKeeps ==
  [][Ran("status") =>
       /\ NothingWritten
       /\ desc = None => out' = [cmd |-> "status", line |-> "Not running"]
       /\ (desc # None /\ ~isProcessRunning(desc.pid)) =>
            out' = [cmd |-> "status", line |-> "Process not found (may have crashed)"]
       /\ (desc # None /\ isProcessRunning(desc.pid)) =>
            out' = [cmd |-> "status", line |-> desc.status,
                    pid |-> desc.pid, path |-> desc.path]]_vars

\* C14 witness: status has just reported a crashed daemon, and the stale
\* descriptor is still there.
C14_Witness ==
  /\ out = [cmd |-> "status", line |-> "Process not found (may have crashed)"]
  /\ desc # None /\ ~isProcessRunning(desc.pid)

\* C15: a pause step that finds no daemon.json returns the error "no daemon is
\* running" and writes nothing: no process is signalled, no daemon.json appears
\* and config.json is as it was.
C15_PauseWithoutDescriptor ==
  [][(Ran("pause") /\ desc = None) =>
       /\ out' = Report("pause", "no daemon is running")
       /\ NothingWritten]_vars

\* C15 witness: pause has just failed for want of a descriptor while a daemon
\* process is alive, in a cycle; the process was not signalled and no descriptor
\* appeared.
C15_Witness ==
  /\ out = Report("pause", "no daemon is running")
  /\ desc = None
  /\ \E p \in Pids : Alive(p) /\ InCycle(p) /\ ~daemons[p].sigPending

\* C16: a pause step that finds daemon.json naming a pid that is not live removes
\* daemon.json, signals no process, changes nothing else and returns an error,
\* not success; a status run right after it prints "Not running".
C16_PauseStaleDescriptor ==
  /\ [][(Ran("pause") /\ desc # None /\ ~isProcessRunning(desc.pid)) =>
          /\ desc' = None
          /\ out' = Report("pause", "daemon process not found (may have crashed)")
          /\ UNCHANGED <<daemons, config, tree, unpushed, nextPid>>]_vars
  /\ [][(out = Report("pause", "daemon process not found (may have crashed)")
          /\ Ran("status")) =>
          out' = [cmd |-> "status", line |-> "Not running"]]_vars

\* C16 witness: the daemon was killed, pause has cleaned up its descriptor and
\* reported that the process was not found.
C16_Witness ==
  /\ out = Report("pause", "daemon process not found (may have crashed)")
  /\ desc = None
  /\ \A p \in Pids : ~Alive(p)
  /\ \E p \in Pids : daemons[p].main = "exited"

\* C17: a pause step that finds the recorded pid live sends SIGTERM to that pid
\* and to no other; if the signal was sent it removes daemon.json and returns
\* nil at once, the signalled process (past signal.Notify) being still alive with
\* the signal pending; if the signal could not be sent it returns the error and
\* daemon.json stays.
C17_PauseLiveDaemon ==
  [][(Ran("pause") /\ desc # None /\ isProcessRunning(desc.pid)) =>
       /\ out'.err \in {"nil", "failed to stop daemon"}
       /\ UNCHANGED <<config, tree, unpushed, nextPid>>
       /\ \A q \in Pids \ {desc.pid} : daemons'[q] = daemons[q]
       /\ out'.err = "nil" =>
            /\ desc' = None
            /\ daemons'[desc.pid] = signalled(daemons[desc.pid])
            /\ daemons[desc.pid].main # "boot" =>
                 /\ daemons'[desc.pid].main \notin {"none", "exited"}
                 /\ daemons'[desc.pid].sigPending
                 /\ daemons'[desc.pid].main = daemons[desc.pid].main
                 /\ daemons'[desc.pid].loop = daemons[desc.pid].loop
       /\ out'.err # "nil" => NothingWritten]_vars

\* C17 witness: pause has returned success and the descriptor is gone, while the
\* daemon it signalled is still in the middle of a cycle.
C17_Witness ==
  /\ out = Report("pause", "nil")
  /\ desc = None
  /\ \E p \in Pids : Alive(p) /\ daemons[p].sigPending /\ InCycle(p)

\* What an init step may do whatever its result: a process appears only together
\* with a saved configuration that holds a validated credential and the root the
\* process was given, and a root is recorded only in a configuration with a
\* validated credential; nil is returned only when the root was detected, the
\* credential validated, the configuration saved with that root and the child
\* started.
InitInOrder ==
  /\ daemons' # daemons =>
       /\ config' # None /\ Valid(Unmarshal(config'))
       /\ ChildStarted(config'.root_path)
  /\ (config' # None /\ config'.root_path \in Repos) => Valid(Unmarshal(config'))
  /\ out'.err = "nil" =>
       /\ config' # None /\ Valid(Unmarshal(config')) /\ config'.root_path \in Repos
       /\ config' = Marshal([LoadConfig EXCEPT !.rootPath = config'.root_path])
       /\ ChildStarted(config'.root_path)
       /\ desc' = [pid |-> nextPid, path |-> config'.root_path, status |-> StatusRunning]
  /\ out'.err = "failed to detect Git root" => NothingWritten
  /\ out'.err = "failed to save config" => NothingWritten

\* C18 (as stated): init aborts at the first failure, and when the credential is
\* rejected config.json is not written at all and no process is spawned.
C18_InitAbortsClean ==
  [][Ran("init") =>
       /\ InitInOrder
       /\ out'.err = "API key validation failed" => NothingWritten]_vars

\* C18 (corrected): init aborts at the first failure; when the credential is
\* rejected no process is spawned, daemon.json is untouched and no root is
\* recorded, but config.json is what LoadConfig left: unchanged if it existed,
\* created with the default record if it did not.
C18_InitAbortsInOrder ==
  [][Ran("init") =>
       /\ InitInOrder
       /\ out'.err = "API key validation failed" =>
            /\ config' = AfterLoadConfig /\ ~Valid(Unmarshal(config'))
            /\ UNCHANGED <<daemons, desc, tree, unpushed, nextPid>>]_vars

\* C18 witness: init was run in a repository with no config.json; the credential
\* check failed, nothing was spawned, and config.json now holds the defaults.
C18_Witness ==
  /\ out = Report("init", "API key validation failed")
  /\ config = Marshal(DefaultConfig)
  /\ desc = None /\ nextPid = 1

\* C19: the interval a daemon has loaded gives, through GetCheckInterval, the
\* default of ten minutes when it is zero or negative and exactly that many
\* minutes when it is positive; the duration Start hands to time.NewTicker is
\* greater than zero.
C19_IntervalPositive ==
  \A p \in Pids :
    (Alive(p) /\ daemons[p].main # "boot") =>
      LET n == daemons[p].minutes
          d == GetCheckInterval(n)
      IN  /\ n <= 0 => d = DefaultCheckInterval
          /\ n > 0 => SignExtend(d) = ExactMinutes(n)
          /\ SignExtend(DefaultCheckInterval) = ExactMinutes(DefaultCheckIntervalMinutes)
          /\ IsPositive64(d)

\* The notifications a cycle with steps tr has sent, for daemon dm: one after a
\* push, of the kind its outcome calls for, and none before.
NotesFor(dm, tr) ==
  IF Len(tr) < Len(Steps) THEN <<>>
  ELSE IF LastOf(tr) = <<"push", "ok">> THEN <<Note("success", dm)>>
  ELSE <<Note("error", dm)>>

\* C20: the notifications of a cycle are determined by how far it got: none
\* until the push step has run, then exactly one, an error notification naming
\* the repository if the push failed and a success notification if it succeeded;
\* a step sends a notification only if it is the push step.
C20_NotificationsOnlyAtPush ==
  /\ [](\A p \in Pids : daemons[p].notes = NotesFor(daemons[p], daemons[p].trace))
  /\ [][\A p \in Pids : (Alive(p)' /\ Len(daemons'[p].notes) > Len(daemons[p].notes)) =>
          /\ daemons[p].loop = "push" /\ daemons'[p].loop = "select"
          /\ daemons[p].notes = <<>> /\ Len(daemons'[p].notes) = 1
          /\ daemons'[p].notes[1].repo = daemons[p].rootPath
          /\ daemons'[p].notes[1].kind = "error" <=> daemons'[p].status = StatusError]_vars
  /\ [][\A p \in Pids : \A i \in 1..(Len(Steps) - 1) : \A oc \in {"ok", "err", "none"} :
          StepDone(p, Steps[i], oc) => daemons'[p].notes = <<>>]_vars

\* C20 witness: a cycle has pushed and sent its one notification, a success
\* notification naming the daemon's repository.
C20_Witness ==
  \E p \in Pids :
    /\ Alive(p) /\ daemons[p].loop = "select"
    /\ daemons[p].notes = <<Note("success", daemons[p])>>
    /\ LastOf(daemons[p].trace) = <<"push", "ok">>
    /\ daemons[p].status = StatusRunning

\* How many times step was attempted in the cycle with steps tr.
Attempts(tr, step) == Cardinality({i \in 1..Len(tr) : tr[i][1] = step})

\* C21: in a cycle the backend is asked once at most, and exactly once when the
\* cycle got its diff; a failed generation ends the cycle; and a cycle (the only
\* way a step is tried again) starts from the select only by a tick, in a daemon
\* whose status is running.
C21_OneGenerationNoRetry ==
  /\ [](\A p \in Pids :
          LET tr == daemons[p].trace IN
          /\ \A i \in 1..Len(Steps) : Attempts(tr, Steps[i]) <= 1
          /\ (Len(tr) >= 3 /\ tr[2] = <<"diff", "ok">>) => Attempts(tr, "generate") = 1)
  /\ [][\A p \in Pids : StepDone(p, "generate", "err") =>
          /\ daemons'[p].loop = "select"
          /\ Attempts(daemons'[p].trace, "generate") = 1]_vars
  /\ [][\A p \in Pids : (Alive(p) /\ daemons[p].loop = "select"
                          /\ daemons'[p].loop = "detect") =>
          /\ daemons[p].tickPending /\ ~daemons'[p].tickPending
          /\ daemons[p].status = StatusRunning]_vars

\* C22: every step attempt of a cycle writes a record of its own to the log,
\* whether it succeeded or failed: the step appends to the log, and what the
\* cycle has written is never undone.
C22_OneRecordPerStep ==
  [][\A p \in Pids : \A i \in 1..Len(Steps) : \A oc \in {"ok", "err", "none"} :
       StepDone(p, Steps[i], oc) =>
         /\ Len(daemons'[p].log) > Len(daemons[p].log)
         /\ SubSeq(daemons'[p].log, 1, Len(daemons[p].log)) = daemons[p].log]_vars

\* C28: an init run in the root that daemon.json records, while the recorded pid
\* is live, returns the already-running error and leaves daemon.json, config.json
\* (not even the default record is created), the processes and the pid counter as
\* they were.
C28_InitAlreadyRunning ==
  [][\A cwd \in Repos :
       (/\ desc # None /\ desc.path = cwd
        /\ daemons[desc.pid].main \notin {"none", "exited"}
        /\ InitCmd(cwd)) =>
         /\ out' = Report("init", "daemon is already running for this repository")
         /\ desc' = desc /\ config' = config
         /\ daemons' = daemons /\ nextPid' = nextPid]_vars

C28_Witness ==
  /\ out = Report("init", "daemon is already running for this repository")
  /\ desc # None /\ desc.pid \in Pids /\ Alive(desc.pid)
  /\ daemons[desc.pid].rootPath = desc.path

\* C29: no two live daemon processes have their loop running (inside a cycle or
\* waiting in the select) for one root path.
C29_OneDaemonPerRoot ==
  \A p, q \in Pids :
    (p # q /\ LoopRunning(p) /\ LoopRunning(q)) =>
      daemons[p].rootPath # daemons[q].rootPath

\* A live daemon process that no SIGTERM has reached.
NotStopped(dm) == dm.main \in {"boot", "start", "wait"} /\ ~dm.sigPending

\* C30: a daemon's exit leaves alone a daemon.json that names another pid, and
\* while the daemon that daemon.json names is live and no SIGTERM has reached it,
\* no step takes daemon.json away.
C30_DeletesOwnDescriptorOnly ==
  /\ [][\A p \in Pids :
          (/\ daemons[p].main = "delete" /\ daemons'[p].main = "exited"
           /\ desc # None /\ desc.pid # p) => desc' = desc]_vars
  /\ [][\A q \in Pids :
          (/\ desc # None /\ desc.pid = q
           /\ NotStopped(daemons[q]) /\ NotStopped(daemons'[q])) =>
            desc' # None]_vars

\* C23: whatever adapter sends it, the diff in a request is the cycle's diff when
\* that is at most 100000 bytes long; a longer one is represented by its first
\* 100000 bytes followed by the truncation marker, and by nothing else.
C23_DiffTruncated ==
  \A p \in Pids :
    (Alive(p) /\ daemons[p].request # None) =>
      LET diff == daemons[p].diff.text
          sent == daemons[p].request.diff
      IN  /\ daemons[p].request.adapter \in {"gemini", "openai", "anthropic"}
          /\ len(diff) <= MaxDiffLen => sent = diff
          /\ len(diff) > MaxDiffLen =>
               /\ Slice(sent, MaxDiffLen) = Slice(diff, MaxDiffLen)
               /\ SliceFrom(sent, MaxDiffLen) = TruncationMarker
               /\ len(sent) = MaxDiffLen + len(TruncationMarker)

\* C23 witness: the anthropic adapter has sent a diff that was longer than the
\* limit, cut inside its second run.
C23_Witness ==
  \E p \in Pids :
    /\ Alive(p) /\ daemons[p].request # None
    /\ daemons[p].request.adapter = "anthropic"
    /\ len(daemons[p].diff.text) > MaxDiffLen /\ Len(daemons[p].diff.text) = 2
    /\ len(daemons[p].request.diff) = MaxDiffLen + 16

C25_LoadConfigRecovers ==
  [][Ran("menu") =>
       /\ out'.err # "nil" => out'.err = "failed to create default config"
       /\ (config \in {None, Malformed, Unreadable} /\ out'.err = "nil") =>
            /\ out'.aiProvider = GeminiName
            /\ out'.minutes = DefaultConfigMinutes]_vars

\* C26: a Save changes config.json only when it reports success, and then to a
\* record whose credential ValidateAPIKey accepts for its provider and whose
\* interval is positive; a Save whose interval does not scan to a positive
\* number or whose credential is rejected reports an error and leaves config.json
\* as it was.
C26_SaveOnlyValidated ==
  [][Ran("save") =>
       LET s == out'.input IN
       /\ config' # config =>
            /\ out'.err = "nil"
            /\ Valid(Unmarshal(config')) /\ Unmarshal(config').minutes > 0
       /\ out'.err # "nil" => config' = config
       /\ (\/ Sscanf(s.interval).err \/ Sscanf(s.interval).n <= 0
           \/ ValidateAPIKey(s.aiProvider, s.apiKey, s.baseURL) # "nil") =>
            out'.err # "nil"]_vars

\* C26 witness: a Save with a credential too short for gemini was refused, and
\* config.json still holds the record of the init.
C26_Witness ==
  /\ out.cmd = "save"
  /\ out.err = "Gemini API key appears to be invalid (too short)"
  /\ config = Marshal(InitConfig("repoA", 0))

\* C27: a daemon that was given an accepted provider name and an empty base URL
\* talks to the OpenAI endpoint when the name is openai in any case, and to the
\* OpenRouter endpoint when it is openrouter in any case.
C27_DefaultEndpoints ==
  \A p \in Pids :
    (/\ Alive(p) /\ daemons[p].aiProvider # None
     /\ Valid(LoadConfig) /\ LoadConfig.baseURL = "") =>
      /\ ToLower(LoadConfig.aiProvider) = OpenAIName =>
           daemons[p].aiProvider.baseURL = OpenAIEndpoint
      /\ ToLower(LoadConfig.aiProvider) = OpenRouterName =>
           daemons[p].aiProvider.baseURL = OpenRouterEndpoint

\* The ticker of p was stopped by a push failure: the status is error and the
\* ticker, created by Start, is stopped.
TimerStoppedByPushFailure(dm) == dm.ticker = "stopped" /\ dm.status = StatusError

\* C31: a daemon whose ticker was stopped by a push failure has status error, and
\* no step of that process takes the status back to running.
C31_ErrorStatusIsFinal ==
  [][\A p \in Pids :
       (Alive(p) /\ TimerStoppedByPushFailure(daemons[p]) /\ daemons'[p].main # "exited")
         => daemons'[p].status = StatusError]_vars

\* The errors daemon.StartDaemonProcess returns.
StartDaemonProcessErrors == {"failed to start daemon", "failed to save daemon info"}

\* C32: an init whose StartDaemonProcess returned an error leaves no process
\* running that was not running before: no child of that call stays alive.
C32_FailedStartLeavesNoChild ==
  [][(Ran("init") /\ out'.err \in StartDaemonProcessErrors) =>
       \A p \in Pids : daemons'[p].main \notin {"none", "exited"} => Alive(p)]_vars

\* C33: the diff a cycle sends to the backend is not empty, and when the cycle
\* reads its diff nothing is in the index already: every change that add all and
\* commit will record is a change git diff shows.
C33_DiffCoversCommit ==
  /\ [][\A p \in Pids : \A oc \in {"ok", "err"} :
          (StepDone(p, "generate", oc) /\ daemons'[p].request # None) =>
            daemons'[p].request.diff # <<>>]_vars
  /\ [][\A p \in Pids :
          StepDone(p, "diff", "ok") => ~tree[daemons[p].rootPath].staged]_vars

\* A daemon supervises root r: its loop runs for r, its status is running and its
\* ticker is active.
Supervised(r) ==
  \E p \in Pids :
    /\ LoopRunning(p) /\ daemons[p].rootPath = r
    /\ daemons[p].status = StatusRunning /\ daemons[p].ticker = "active"

\* The last step a daemon of r took in its cycle failed.
StepFailed(r) ==
  \E p \in Pids :
    /\ Alive(p) /\ daemons[p].rootPath = r
    /\ daemons[p].trace # <<>> /\ LastOf(daemons[p].trace)[2] = "err"

\* C34: local commits that are not on the remote get pushed: while a running
\* daemon supervises the repository and its steps succeed, a cycle pushes them,
\* new changes in the working tree or not.
C34_CommitsEventuallyPushed ==
  \A r \in Repos :
    (Supervised(r) /\ unpushed[r] > 0)
      ~> (unpushed[r] = 0 \/ ~Supervised(r) \/ StepFailed(r))

\* C35: the loop's last record is written while the log file is open: the step in
\* which the loop returns appends "Daemon stopped" to the log, and the log file
\* is closed only after the loop has returned.
C35_NoWriteAfterClose ==
  /\ [][\A p \in Pids :
          (Alive(p) /\ daemons[p].loop = "stopping" /\ daemons'[p].loop = "returned") =>
            /\ daemons[p].logOpen
            /\ daemons'[p].log = Append(daemons[p].log, DaemonStopped)]_vars
  /\ [][\A p \in Pids :
          (daemons[p].logOpen /\ daemons'[p].main = "delete") =>
            daemons[p].loop = "returned"]_vars

\* C36: when the dashboard shows "Running", daemon.json names a live process
\* whose in-process status is running.
C36_DashboardRunningIsTrue ==
  (out.cmd = "dashboard" /\ out.status = "Running") =>
    /\ desc # None /\ isProcessRunning(desc.pid)
    /\ daemons[desc.pid].status = StatusRunning
====
